---- MODULE Spec2Model ----
(***************************************************************************)
(* batched_translate (src/airbnb.py, lines 158-182): the loop that groups  *)
(* review texts into batches under a character budget and an item-count    *)
(* limit, sends each batch to the translation client and concatenates the  *)
(* translated texts.  The translation client is the environment: every     *)
(* call either returns a list of result records or raises.                 *)
(***************************************************************************)
EXTENDS Integers, Sequences, FiniteSets, TLC

\* ------------------------------------------------------------- bounds
MaxItems == 3       \* longest text_list explored
MaxTextLen == 2     \* longest single text explored
MaxChars == 3       \* largest max_chars explored (0 is the invalid value)
MaxBatch == 3       \* largest batch_size explored (0 is the invalid value)
MaxMismatches == 1  \* most calls of one run that return a list of the wrong length
MaxRows == 2002     \* most rows of a reviews file explored
MaxListings == 1002 \* most filtered listings explored on the Listings Overview map
MaxRatingRows == 2  \* most merged rows explored on the Review Scores map

\* ------------------------------------------------------------- constants
SampleSize == 2000  \* rows of reviews kept by the load_data functions
MarkerCap == 1000   \* markers drawn at most on the Listings Overview map
GreenFrom == 45     \* 4.5 stars, in tenths of a star
OrangeFrom == 40    \* 4.0 stars, in tenths of a star
MaxScore == 50      \* 5 stars, in tenths of a star

\* ------------------------------------------------------------- values
\* A text is a sequence of characters; len(text) is its Len.
Texts == { [j \in 1..n |-> "a"] : n \in 0..MaxTextLen }

RECURSIVE SeqsUpTo(_, _)
SeqsUpTo(S, n) ==
    IF n = 0 THEN { <<>> }
    ELSE LET shorter == SeqsUpTo(S, n - 1)
         IN  shorter \cup { Append(s, x) : s \in { t \in shorter : Len(t) = n - 1 }, x \in S }

TextLists == SeqsUpTo(Texts, MaxItems)

\* What the translation service makes of one text: its English rendering.
Translation(text) == <<"en">> \o text

\* Exceptions the translation client can raise from a call.
RemoteExceptions == { "BadRequest", "ServiceUnavailable" }

NoException == [type |-> "none"]

\* The list client.translate returns when it keeps its contract: one result
\* record per text of the batch, in the order of the batch.
HonestResponse(batch) ==
    [j \in 1..Len(batch) |-> [translatedText |-> Translation(batch[j]), input |-> batch[j]]]

ExtraResult == [translatedText |-> <<"?">>, input |-> <<>>]

\* The value of a dataset that load_data did not store.
NotLoaded == [loaded |-> FALSE, rows |-> 0]

\* ------------------------------------------------------------- state
VARIABLES
    text_list,      \* argument: the texts to translate
    max_chars,      \* argument
    batch_size,     \* argument
    i,              \* position of the for loop in text_list (1-based, next text)
    current_batch,  \* local
    char_count,     \* local
    results,        \* local, the list returned at the end
    pc,             \* "loop", "returned" or "raised"
    raised,         \* the exception delivered to the caller
    calls,          \* the calls client.translate has received, in order
    run,            \* caller: which invocation of batched_translate this is
    first_run,      \* caller: what the first invocation did and gave back
    page,           \* load_data: the script it belongs to
    n_rows,         \* load_data: rows of the reviews file on disk
    load_pc,        \* load_data: "idle", "start" or "done"
    reviews,        \* load_data: the reviews dataset handed on (its rows), or NotLoaded
    load_error,     \* load_data: the exception its try block caught
    map_type,       \* 2_map.py: the map chosen in the sidebar
    n_filtered,     \* 2_map.py: len(filtered_listings)
    detailed_available, \* 2_map.py: detailed_listings is there and not empty
    rating_column,  \* 2_map.py: merged_data has a review_scores_rating column
    ratings,        \* 2_map.py: review_scores_rating of the rows of merged_data
    overview_markers, \* 2_map.py: markers added to the Listings Overview map
    score_markers,  \* 2_map.py: circle markers added to the Review Scores map
    notice,         \* 2_map.py: the info or warning shown under the map
    map_pc,         \* 2_map.py: "idle", "start" or "done"
    dirs_exist,     \* file system: which of the candidate data directories exist
    files,          \* file system: each required file "missing", "readable" or "unreadable"
    geopandas_available, \* GEOPANDAS_AVAILABLE: import geopandas succeeds
    data_path,      \* load_data: position of the chosen directory, 0 for None
    file_idx,       \* load_data: position of the loop over required_files
    datasets,       \* load_data: keys stored (elements of the tuple that are not None)
    files_read,     \* load_data: keys of the files a read was attempted on
    messages,       \* load_data: the st.error, st.warning and st.success shown
    app_pc,         \* load_data: "idle", "start", "files", "returned" or "stopped"
    rendered        \* the page went on to render its controls

vars == <<text_list, max_chars, batch_size, i, current_batch, char_count,
          results, pc, raised, calls, run, first_run,
          page, n_rows, load_pc, reviews, load_error,
          map_type, n_filtered, detailed_available, rating_column, ratings,
          overview_markers, score_markers, notice, map_pc,
          dirs_exist, files, geopandas_available, data_path, file_idx,
          datasets, files_read, messages, app_pc, rendered>>

filer == <<dirs_exist, files, geopandas_available, data_path, file_idx,
           datasets, files_read, messages, app_pc, rendered>>

mapper == <<map_type, n_filtered, detailed_available, rating_column, ratings,
            overview_markers, score_markers, notice, map_pc>>

others == <<mapper, filer>>

loader == <<page, n_rows, load_pc, reviews, load_error>>

translator == <<text_list, max_chars, batch_size, i, current_batch, char_count,
                results, pc, raised, calls, run, first_run>>

args == <<text_list, max_chars, batch_size>>

caller == <<run, first_run>>

\* The call returned a list that is not as long as the batch it was given.
Mismatched(k) == calls[k].exc = "none" /\ Len(calls[k].response) # Len(calls[k].batch)

\* Every list a call to client.translate may return: the honest one, one
\* with its last record missing, one with a record too many.
RemoteReturns(batch) ==
    LET honest == HonestResponse(batch)
    IN  IF Cardinality({ k \in 1..Len(calls) : Mismatched(k) }) >= MaxMismatches
        THEN { honest }
        ELSE { honest, Append(honest, ExtraResult) }
             \cup (IF Len(honest) > 0 THEN { SubSeq(honest, 1, Len(honest) - 1) } ELSE {})

\* A deterministic service answers a batch it has answered in the first
\* invocation the way it answered it then.
AnsweredBefore(batch) ==
    { first_run.calls[k] : k \in { n \in 1..Len(first_run.calls) :
                                     first_run.calls[n].batch = batch } }

Returns(batch) ==
    IF AnsweredBefore(batch) = {} THEN RemoteReturns(batch)
    ELSE { c.response : c \in { d \in AnsweredBefore(batch) : d.exc = "none" } }

Raises(batch) ==
    IF AnsweredBefore(batch) = {} THEN RemoteExceptions
    ELSE { c.exc : c \in { d \in AnsweredBefore(batch) : d.exc # "none" } }

\* ------------------------------------------------------------- code
\* line 168: the flush condition
NeedFlushCountOnly(cc, text_len, batch, mc, bs) == Len(batch) >= bs
NeedFlushStrict(cc, text_len, batch, mc, bs) ==
    (cc + text_len > mc) \/ (Len(batch) > bs)
NeedFlushEarly(cc, text_len, batch, mc, bs) ==
    (cc + text_len > mc) \/ (Len(batch) + 1 >= bs)
NeedFlushExclusive(cc, text_len, batch, mc, bs) ==
    (cc + text_len >= mc) \/ (Len(batch) >= bs)
NeedFlush(cc, text_len, batch, mc, bs) ==
    (cc + text_len > mc) \/ (Len(batch) >= bs)

\* lines 170, 180: [r['translatedText'] for r in translated]
ExtractReversed(translated) ==
    [j \in 1..Len(translated) |-> translated[Len(translated) + 1 - j].translatedText]
Extract(translated) == [j \in 1..Len(translated) |-> translated[j].translatedText]

\* lines 170, 180: results.extend(...)
MergeInFront(res, translated) == Extract(translated) \o res
MergeDropLast(res, translated) ==
    res \o (IF Len(translated) > 0 THEN SubSeq(Extract(translated), 1, Len(translated) - 1)
            ELSE <<>>)
Merge(res, translated) == res \o Extract(translated)

\* line 174: current_batch.append(text)
AppendItemTruncated(batch, text) ==
    Append(batch, SubSeq(text, 1, IF Len(text) <= max_chars THEN Len(text) ELSE max_chars))
AppendItem(batch, text) == Append(batch, text)

\* line 172: char_count = 0
CountKept(cc) == cc
CountAfterFlush(cc) == 0

\* line 178: `if current_batch:`
LeftoverAlways(batch) == TRUE
LeftoverNever(batch) == FALSE
LeftoverPending(batch) == batch # <<>>

\* lines 169, 179: an exception of client.translate is not caught; it leaves
\* batched_translate as it is.
PropagateWrapped(e, batch_index, done) ==
    [type |-> "RemoteCallError", batch_index |-> batch_index, partial_count |-> done]
Propagate(e, batch_index, done) == [type |-> e]

\* line 162: results = []
StaleResults(old) == old
FreshResults(old) == <<>>

\* lines 169, 179: where control is after client.translate raised
PcRetry == "loop"
PcAfterRaise == "raised"

\* One call of client.translate as the service sees it: the batch, the
\* position in text_list of the batch's first text, and how the call ended.
Call(batch, first, exc, response) ==
    [batch |-> batch, first |-> first, exc |-> exc, response |-> response]

\* The map page is not running.
MapIdle ==
    /\ map_type = "none"
    /\ n_filtered = 0
    /\ detailed_available = FALSE
    /\ rating_column = FALSE
    /\ ratings = <<>>
    /\ overview_markers = 0
    /\ score_markers = <<>>
    /\ notice = "none"
    /\ map_pc = "idle"

\* The loaders of whole directories are not running.
FilerIdle ==
    /\ dirs_exist = <<>>
    /\ files = <<>>
    /\ geopandas_available = FALSE
    /\ data_path = 0
    /\ file_idx = 1
    /\ datasets = {}
    /\ files_read = {}
    /\ messages = <<>>
    /\ app_pc = "idle"
    /\ rendered = FALSE

Init ==
    /\ text_list \in TextLists
    /\ max_chars \in 0..MaxChars
    /\ batch_size \in 0..MaxBatch
    /\ i = 1
    /\ current_batch = <<>>
    /\ char_count = 0
    /\ results = <<>>
    /\ pc = "loop"
    /\ raised = NoException
    /\ calls = <<>>
    /\ run = 1
    /\ first_run = [calls |-> <<>>, results |-> <<>>, pc |-> "none", raised |-> NoException]
    /\ page = "airbnb"
    /\ n_rows = 0
    /\ load_pc = "idle"
    /\ reviews = NotLoaded
    /\ load_error = "none"
    /\ MapIdle
    /\ FilerIdle

\* lines 164-175, the branch at 168 not taken
AppendText ==
    /\ pc = "loop"
    /\ i <= Len(text_list)
    /\ LET text == text_list[i]
           text_len == Len(text)
       IN  /\ ~NeedFlush(char_count, text_len, current_batch, max_chars, batch_size)
           /\ current_batch' = AppendItem(current_batch, text)
           /\ char_count' = char_count + text_len
    /\ i' = i + 1
    /\ UNCHANGED <<args, caller, loader, others, results, pc, raised, calls>>

\* lines 164-175, the branch at 168 taken and client.translate returns
FlushAndAppend ==
    /\ pc = "loop"
    /\ i <= Len(text_list)
    /\ LET text == text_list[i]
           text_len == Len(text)
       IN  /\ NeedFlush(char_count, text_len, current_batch, max_chars, batch_size)
           /\ \E translated \in Returns(current_batch) :
                /\ calls' = Append(calls, Call(current_batch, i - Len(current_batch),
                                               "none", translated))
                /\ results' = Merge(results, translated)
           /\ current_batch' = AppendItem(<<>>, text)
           /\ char_count' = CountAfterFlush(char_count) + text_len
    /\ i' = i + 1
    /\ UNCHANGED <<args, caller, loader, others, pc, raised>>

\* lines 168-169, client.translate raises
FlushRaises ==
    /\ pc = "loop"
    /\ i <= Len(text_list)
    /\ NeedFlush(char_count, Len(text_list[i]), current_batch, max_chars, batch_size)
    /\ \E e \in Raises(current_batch) :
         /\ calls' = Append(calls, Call(current_batch, i - Len(current_batch), e, <<>>))
         /\ raised' = Propagate(e, Len(calls), Len(results))
    /\ pc' = PcAfterRaise
    /\ UNCHANGED <<args, caller, loader, others, i, current_batch, char_count, results>>

\* lines 178-182, client.translate returns
LeftoverFlush ==
    /\ pc = "loop"
    /\ i > Len(text_list)
    /\ LeftoverPending(current_batch)
    /\ \E translated \in Returns(current_batch) :
         /\ calls' = Append(calls, Call(current_batch, i - Len(current_batch),
                                        "none", translated))
         /\ results' = Merge(results, translated)
    /\ pc' = "returned"
    /\ UNCHANGED <<args, caller, loader, others, i, current_batch, char_count, raised>>

\* lines 178-179, client.translate raises
LeftoverRaises ==
    /\ pc = "loop"
    /\ i > Len(text_list)
    /\ LeftoverPending(current_batch)
    /\ \E e \in Raises(current_batch) :
         /\ calls' = Append(calls, Call(current_batch, i - Len(current_batch), e, <<>>))
         /\ raised' = Propagate(e, Len(calls), Len(results))
    /\ pc' = PcAfterRaise
    /\ UNCHANGED <<args, caller, loader, others, i, current_batch, char_count, results>>

\* lines 178, 182, nothing left over
ReturnResults ==
    /\ pc = "loop"
    /\ i > Len(text_list)
    /\ ~LeftoverPending(current_batch)
    /\ pc' = "returned"
    /\ UNCHANGED <<args, caller, loader, others, i, current_batch, char_count, results, raised, calls>>

Next ==
    \/ AppendText
    \/ FlushAndAppend
    \/ FlushRaises
    \/ LeftoverFlush
    \/ LeftoverRaises
    \/ ReturnResults

Spec == Init /\ [][Next]_vars

\* The service has been deterministic so far: equal batches, equal answers.
AnswersAgree(log) ==
    \A k, l \in 1..Len(log) :
        log[k].batch = log[l].batch =>
            log[k].exc = log[l].exc /\ log[k].response = log[l].response

\* The caller invokes batched_translate a second time with the same
\* arguments once the first invocation has ended, against a service that
\* has been deterministic: lines 160-162 start it with fresh locals.
CallAgain ==
    /\ run = 1
    /\ pc \in {"returned", "raised"}
    /\ AnswersAgree(calls)
    /\ first_run' = [calls |-> calls, results |-> results, pc |-> pc, raised |-> raised]
    /\ run' = 2
    /\ i' = 1
    /\ current_batch' = <<>>
    /\ char_count' = 0
    /\ results' = FreshResults(results)
    /\ pc' = "loop"
    /\ raised' = NoException
    /\ calls' = <<>>
    /\ UNCHANGED <<args, loader, others>>

NextTwice ==
    \/ Next
    \/ CallAgain

SpecTwice == Init /\ [][NextTwice]_vars

\* The function runs on one call stack and client.translate always returns
\* or raises: whenever a step is possible, one is taken.
FairSpec == Spec /\ WF_vars(Next)


\* ------------------------------------------------------------- load_data
\* The reviews step of load_data in app.py, app_simple.py, pages/1_price.py
\* and pages/2_map.py.  A data frame is its number of rows.

Min(a, b) == IF a <= b THEN a ELSE b

LoadPages == { "app", "app_simple", "price", "map" }

\* DataFrame.sample(n): n rows of the frame, ValueError when the frame has
\* fewer than n rows (sampling is without replacement).
Sample(rows, n) ==
    IF n <= rows THEN [raises |-> "none", rows |-> n]
    ELSE [raises |-> "ValueError", rows |-> 0]

\* A frame that is handed on as it is.
Whole(rows) == [raises |-> "none", rows |-> rows]

\* app.py line 131, 1_price.py line 35, 2_map.py line 38: min(2000, len(df))
SampleCountFixed(rows) == SampleSize
SampleCount(rows) == Min(SampleSize, rows)

\* app_simple.py lines 66-67: sampled only when longer than 2000
SimpleSampled(rows) ==
    IF rows > SampleSize THEN Sample(rows, SampleSize) ELSE Whole(rows)

\* What the try block makes of the sampled frame: the dataset, or the
\* ValueError caught by its except clause.
Stored(sampled) ==
    IF sampled.raises = "none" THEN [loaded |-> TRUE, rows |-> sampled.rows] ELSE NotLoaded
Caught(sampled) == sampled.raises

InitLoad ==
    /\ text_list = <<>>
    /\ max_chars = 0
    /\ batch_size = 0
    /\ i = 1
    /\ current_batch = <<>>
    /\ char_count = 0
    /\ results = <<>>
    /\ pc = "idle"
    /\ raised = NoException
    /\ calls = <<>>
    /\ run = 1
    /\ first_run = [calls |-> <<>>, results |-> <<>>, pc |-> "none", raised |-> NoException]
    /\ page \in LoadPages
    /\ n_rows \in 0..MaxRows
    /\ load_pc = "start"
    /\ reviews = NotLoaded
    /\ load_error = "none"
    /\ MapIdle
    /\ FilerIdle

\* app.py lines 126-131: the reviews file is read and sampled
LoadReviewsApp ==
    /\ load_pc = "start" /\ page = "app"
    /\ LET df == n_rows
           sampled == Sample(df, SampleCount(df))
       IN  /\ reviews' = Stored(sampled)
           /\ load_error' = Caught(sampled)
    /\ load_pc' = "done"
    /\ UNCHANGED <<translator, others, page, n_rows>>

\* app_simple.py lines 64-68
LoadReviewsSimple ==
    /\ load_pc = "start" /\ page = "app_simple"
    /\ LET df == n_rows
           sampled == SimpleSampled(df)
       IN  /\ reviews' = Stored(sampled)
           /\ load_error' = Caught(sampled)
    /\ load_pc' = "done"
    /\ UNCHANGED <<translator, others, page, n_rows>>

\* pages/1_price.py line 35 and pages/2_map.py line 38: the file is read
\* twice, once for the frame and once for its length
LoadReviewsPage ==
    /\ load_pc = "start" /\ page \in {"price", "map"}
    /\ LET df == n_rows
           again == n_rows
           sampled == Sample(df, SampleCount(again))
       IN  /\ reviews' = Stored(sampled)
           /\ load_error' = Caught(sampled)
    /\ load_pc' = "done"
    /\ UNCHANGED <<translator, others, page, n_rows>>

\* pd.read_csv raises on the reviews file: the except clause takes over
\* (app.py line 144, app_simple.py line 70, 1_price.py line 38, 2_map.py line 52)
ReadReviewsFails ==
    /\ load_pc = "start"
    /\ reviews' = NotLoaded
    /\ load_error' = "ReadError"
    /\ load_pc' = "done"
    /\ UNCHANGED <<translator, others, page, n_rows>>

NextLoad ==
    \/ LoadReviewsApp
    \/ LoadReviewsSimple
    \/ LoadReviewsPage
    \/ ReadReviewsFails

SpecLoad == InitLoad /\ [][NextLoad]_vars

\* ------------------------------------------------------------- pages/2_map.py
\* The Listings Overview branch (lines 110-146) and the Review Scores branch
\* (lines 247-303) of the map page.  A rating is in tenths of a star; a
\* missing rating is NaN, which compares False with every number.

Ratings ==
    { [null |-> TRUE, score |-> 0] } \cup { [null |-> FALSE, score |-> v] : v \in 0..MaxScore }

\* The translator is not running.
TranslatorIdle ==
    /\ text_list = <<>>
    /\ max_chars = 0
    /\ batch_size = 0
    /\ i = 1
    /\ current_batch = <<>>
    /\ char_count = 0
    /\ results = <<>>
    /\ pc = "idle"
    /\ raised = NoException
    /\ calls = <<>>
    /\ run = 1
    /\ first_run = [calls |-> <<>>, results |-> <<>>, pc |-> "none", raised |-> NoException]

\* load_data is not running.
LoaderIdle ==
    /\ n_rows = 0
    /\ load_pc = "idle"
    /\ reviews = NotLoaded
    /\ load_error = "none"

\* line 123: sample_size = min(1000, len(filtered_listings))
OverviewSampleSize(n) == Min(MarkerCap, n)

\* line 124: the rows that get a marker
OverviewUnsampled(n) == n
OverviewSample(n) ==
    IF n > OverviewSampleSize(n) THEN Sample(n, OverviewSampleSize(n)).rows ELSE n

\* line 145: whether the "Showing N out of M listings" notice appears
OverviewNotice(n) == OverviewSampleSize(n) < n

\* line 257: merged_data.dropna(subset=['review_scores_rating']), the rows
\* kept, each with its position in merged_data
RECURSIVE RowsFrom(_, _)
RowsFrom(col, k) ==
    IF k > Len(col) THEN <<>>
    ELSE <<[row |-> k, rating |-> col[k]]>> \o RowsFrom(col, k + 1)

KeepNa(rows) == rows
DropNa(rows) == SelectSeq(rows, LAMBDA r : ~r.rating.null)

\* lines 270-275: the colour of a score
ColorOfStrict(rating) ==
    IF ~rating.null /\ rating.score > GreenFrom THEN "green"
    ELSE IF ~rating.null /\ rating.score > OrangeFrom THEN "orange"
    ELSE "red"
ColorOf(rating) ==
    IF ~rating.null /\ rating.score >= GreenFrom THEN "green"
    ELSE IF ~rating.null /\ rating.score >= OrangeFrom THEN "orange"
    ELSE "red"

\* lines 266-285: one circle marker per row of review_data
CircleMarkers(review_data) ==
    [k \in 1..Len(review_data) |->
        [row |-> review_data[k].row, color |-> ColorOf(review_data[k].rating)]]

InitMap ==
    /\ TranslatorIdle
    /\ LoaderIdle
    /\ FilerIdle
    /\ page = "map"
    /\ \/ /\ map_type = "Listings Overview"
          /\ n_filtered \in 0..MaxListings
          /\ detailed_available = TRUE
          /\ rating_column = TRUE
          /\ ratings = <<>>
       \/ /\ map_type = "Review Scores"
          /\ n_filtered = 0
          /\ detailed_available \in BOOLEAN
          /\ rating_column \in BOOLEAN
          /\ ratings \in IF detailed_available /\ rating_column
                          THEN SeqsUpTo(Ratings, MaxRatingRows) ELSE {<<>>}
    /\ overview_markers = 0
    /\ score_markers = <<>>
    /\ notice = "none"
    /\ map_pc = "start"

\* lines 110-146
ShowListingsOverview ==
    /\ map_pc = "start" /\ map_type = "Listings Overview"
    /\ overview_markers' = OverviewSample(n_filtered)
    /\ notice' = IF OverviewNotice(n_filtered) THEN "showing" ELSE "none"
    /\ map_pc' = "done"
    /\ UNCHANGED <<translator, loader, filer, map_type, n_filtered, detailed_available,
                   rating_column, ratings, score_markers>>

\* lines 247-297: the map is drawn
ShowReviewScores ==
    /\ map_pc = "start" /\ map_type = "Review Scores"
    /\ detailed_available /\ rating_column
    /\ LET review_data == DropNa(RowsFrom(ratings, 1))
       IN  /\ review_data # <<>>
           /\ score_markers' = CircleMarkers(review_data)
    /\ notice' = "legend"
    /\ map_pc' = "done"
    /\ UNCHANGED <<translator, loader, filer, map_type, n_filtered, detailed_available,
                   rating_column, ratings, overview_markers>>

\* lines 298-303: one of the three warnings instead of the map
WarnNoReviewScores ==
    /\ map_pc = "start" /\ map_type = "Review Scores"
    /\ \/ ~detailed_available /\ notice' = "no detailed listings"
       \/ detailed_available /\ ~rating_column /\ notice' = "no review scores column"
       \/ /\ detailed_available /\ rating_column
          /\ DropNa(RowsFrom(ratings, 1)) = <<>>
          /\ notice' = "no review score data"
    /\ map_pc' = "done"
    /\ UNCHANGED <<translator, loader, filer, map_type, n_filtered, detailed_available,
                   rating_column, ratings, overview_markers, score_markers>>

NextMap ==
    \/ ShowListingsOverview
    \/ ShowReviewScores
    \/ WarnNoReviewScores

SpecMap == InitMap /\ [][NextMap]_vars

\* ------------------------------------------------------------- app.py load_data
\* The whole of load_data of app.py (lines 76-149): the search for the data
\* directory, then the loop over required_files.

\* lines 80-89: [data_dir] + alternative_paths
DataDirs == <<"airbnb/data", "data", "Data", ".", "../data", "../airbnb/data">>

\* lines 110-116: required_files, in the order of the dict
RequiredFiles ==
    << [key |-> "listings", filename |-> "listings.csv", kind |-> "csv"],
       [key |-> "detailed_listings", filename |-> "listings-2.csv", kind |-> "csv"],
       [key |-> "reviews", filename |-> "reviews-2.csv", kind |-> "csv"],
       [key |-> "calendar", filename |-> "calendar.csv", kind |-> "csv"],
       [key |-> "neighbourhoods", filename |-> "neighbourhoods.geojson", kind |-> "geojson"] >>

FileKeys == { RequiredFiles[k].key : k \in 1..Len(RequiredFiles) }

FileStatus == {"missing", "readable", "unreadable"}

\* lines 92-96: the position of the first path that exists, 0 for None
LastExisting(exist) ==
    IF \E k \in 1..Len(exist) : exist[k]
    THEN CHOOSE k \in 1..Len(exist) : exist[k] /\ \A j \in (k+1)..Len(exist) : ~exist[j]
    ELSE 0
FirstExisting(exist) ==
    IF \E k \in 1..Len(exist) : exist[k]
    THEN CHOOSE k \in 1..Len(exist) : exist[k] /\ \A j \in 1..(k-1) : ~exist[j]
    ELSE 0

\* lines 124 and 142-143: after a file that is skipped the loop goes on with
\* the next one
AfterSkipBreak(k) == Len(RequiredFiles) + 1
AfterSkip(k) == k + 1

\* lines 127-138: whether the branch taken for the file reads it
ReadsFile(file, gp) == file.kind = "csv" \/ (file.kind = "geojson" /\ gp)

Message(kind, text, filename) == [kind |-> kind, text |-> text, file |-> filename]

InitApp ==
    /\ TranslatorIdle
    /\ LoaderIdle
    /\ MapIdle
    /\ page = "app"
    /\ dirs_exist \in [1..Len(DataDirs) -> BOOLEAN]
    /\ files \in IF \E k \in 1..Len(DataDirs) : dirs_exist[k]
                 THEN [FileKeys -> FileStatus] ELSE [FileKeys -> {"missing"}]
    /\ geopandas_available \in BOOLEAN
    /\ data_path = 0
    /\ file_idx = 1
    /\ datasets = {}
    /\ files_read = {}
    /\ messages = <<>>
    /\ app_pc = "start"
    /\ rendered = FALSE

\* lines 92-96 and 106-116: a directory exists
FindDataDir ==
    /\ app_pc = "start" /\ page = "app"
    /\ FirstExisting(dirs_exist) # 0
    /\ data_path' = FirstExisting(dirs_exist)
    /\ app_pc' = "files"
    /\ UNCHANGED <<translator, loader, mapper, dirs_exist, files, geopandas_available,
                   file_idx, datasets, files_read, messages, rendered>>

\* lines 92-102: no directory exists, st.error and st.stop()
DataDirNotFound ==
    /\ app_pc = "start" /\ page = "app"
    /\ FirstExisting(dirs_exist) = 0
    /\ data_path' = 0
    /\ messages' = Append(messages, Message("error", "Data directory not found", "none"))
    /\ app_pc' = "stopped"
    /\ UNCHANGED <<translator, loader, mapper, dirs_exist, files, geopandas_available,
                   file_idx, datasets, files_read, rendered>>

\* lines 119-124: the file is not there
FileNotFound ==
    /\ app_pc = "files" /\ page = "app" /\ file_idx <= Len(RequiredFiles)
    /\ LET file == RequiredFiles[file_idx]
       IN  /\ files[file.key] = "missing"
           /\ messages' = Append(messages, Message("warning", "File not found", file.filename))
    /\ file_idx' = AfterSkip(file_idx)
    /\ UNCHANGED <<translator, loader, mapper, dirs_exist, files, geopandas_available,
                   data_path, datasets, files_read, app_pc, rendered>>

\* lines 126-140: the file is read and stored
ReadFile ==
    /\ app_pc = "files" /\ page = "app" /\ file_idx <= Len(RequiredFiles)
    /\ LET file == RequiredFiles[file_idx]
       IN  /\ files[file.key] = "readable"
           /\ ReadsFile(file, geopandas_available)
           /\ files_read' = files_read \cup {file.key}
           /\ datasets' = datasets \cup {file.key}
           /\ messages' = Append(messages, Message("success", "Loaded", file.filename))
    /\ file_idx' = file_idx + 1
    /\ UNCHANGED <<translator, loader, mapper, dirs_exist, files, geopandas_available,
                   data_path, app_pc, rendered>>

\* lines 126-143: the read raises
ReadFileFails ==
    /\ app_pc = "files" /\ page = "app" /\ file_idx <= Len(RequiredFiles)
    /\ LET file == RequiredFiles[file_idx]
       IN  /\ files[file.key] = "unreadable"
           /\ ReadsFile(file, geopandas_available)
           /\ files_read' = files_read \cup {file.key}
           /\ messages' = Append(messages, Message("error", "Error loading", file.filename))
    /\ file_idx' = AfterSkip(file_idx)
    /\ UNCHANGED <<translator, loader, mapper, dirs_exist, files, geopandas_available,
                   data_path, datasets, app_pc, rendered>>

\* lines 134-140: the geojson file is there and GeoPandas is not; the warning
\* of line 138, then line 140
SkipGeoJson ==
    /\ app_pc = "files" /\ page = "app" /\ file_idx <= Len(RequiredFiles)
    /\ LET file == RequiredFiles[file_idx]
       IN  /\ files[file.key] # "missing"
           /\ ~ReadsFile(file, geopandas_available)
           /\ messages' = messages \o
                 << Message("warning", "GeoPandas not available. Skipping", file.filename),
                    Message("success", "Loaded", file.filename) >>
    /\ file_idx' = file_idx + 1
    /\ UNCHANGED <<translator, loader, mapper, dirs_exist, files, geopandas_available,
                   data_path, datasets, files_read, app_pc, rendered>>

\* line 145: return datasets
ReturnDatasets ==
    /\ app_pc = "files" /\ page = "app" /\ file_idx > Len(RequiredFiles)
    /\ app_pc' = "returned"
    /\ rendered' = TRUE
    /\ UNCHANGED <<translator, loader, mapper, dirs_exist, files, geopandas_available,
                   data_path, file_idx, datasets, files_read, messages>>

NextApp ==
    \/ FindDataDir
    \/ DataDirNotFound
    \/ FileNotFound
    \/ ReadFile
    \/ ReadFileFails
    \/ SkipGeoJson
    \/ ReturnDatasets

SpecApp == InitApp /\ [][NextApp]_vars

\* ------------------------------------------------- pages/*.py load_data
\* load_data of pages/1_price.py (lines 24-45) and of pages/2_map.py (lines
\* 27-54), and the check of its result by the page (1_price.py lines 47-50,
\* 2_map.py lines 56-59).  A file that is missing makes read_csv raise.

\* Path("Data") among DataDirs
PageDataDir == 3

\* the four files read with pd.read_csv, in the order of the reads
CsvKeys == <<"listings", "detailed_listings", "reviews", "calendar">>

AllCsvKeys == { CsvKeys[k] : k \in 1..Len(CsvKeys) }

InitPages ==
    /\ TranslatorIdle
    /\ LoaderIdle
    /\ MapIdle
    /\ page \in {"price", "map"}
    /\ \E there \in BOOLEAN :
          dirs_exist = [k \in 1..Len(DataDirs) |-> k = PageDataDir /\ there]
    /\ files \in IF dirs_exist[PageDataDir]
                 THEN [FileKeys -> FileStatus] ELSE [FileKeys -> {"missing"}]
    /\ geopandas_available \in BOOLEAN
    /\ data_path = 0
    /\ file_idx = 1
    /\ datasets = {}
    /\ files_read = {}
    /\ messages = <<>>
    /\ app_pc = "start"
    /\ rendered = FALSE

\* 1_price.py lines 26-30, 2_map.py lines 29-33: does Data exist
CheckDataDir ==
    /\ app_pc = "start" /\ page \in {"price", "map"}
    /\ IF dirs_exist[PageDataDir]
       THEN /\ data_path' = PageDataDir
            /\ app_pc' = "files"
            /\ UNCHANGED messages
       ELSE /\ data_path' = 0
            /\ messages' = Append(messages, Message("error", "Data directory not found", "none"))
            /\ app_pc' = "returned"
    /\ UNCHANGED <<translator, loader, mapper, dirs_exist, files, geopandas_available,
                   file_idx, datasets, files_read, rendered>>

\* 1_price.py lines 33-36, 2_map.py lines 36-39: one read_csv that returns
ReadCsv ==
    /\ app_pc = "files" /\ page \in {"price", "map"} /\ file_idx <= Len(CsvKeys)
    /\ files[CsvKeys[file_idx]] = "readable"
    /\ files_read' = files_read \cup {CsvKeys[file_idx]}
    /\ file_idx' = file_idx + 1
    /\ UNCHANGED <<translator, loader, mapper, dirs_exist, files, geopandas_available,
                   data_path, datasets, messages, app_pc, rendered>>

\* 1_price.py lines 38-40, 2_map.py lines 52-54: one read_csv that raises
ReadCsvRaises ==
    /\ app_pc = "files" /\ page \in {"price", "map"} /\ file_idx <= Len(CsvKeys)
    /\ files[CsvKeys[file_idx]] # "readable"
    /\ files_read' = files_read \cup {CsvKeys[file_idx]}
    /\ messages' = Append(messages, Message("error", "Error loading data", "none"))
    /\ datasets' = {}
    /\ app_pc' = "returned"
    /\ UNCHANGED <<translator, loader, mapper, dirs_exist, files, geopandas_available,
                   data_path, file_idx, rendered>>

\* 1_price.py line 37: return listings, detailed_listings, reviews, calendar, None
ReturnPrice ==
    /\ app_pc = "files" /\ page = "price" /\ file_idx > Len(CsvKeys)
    /\ datasets' = AllCsvKeys
    /\ app_pc' = "returned"
    /\ UNCHANGED <<translator, loader, mapper, dirs_exist, files, geopandas_available,
                   data_path, file_idx, files_read, messages, rendered>>

\* 2_map.py lines 42-51: the geojson file is absent, or geopandas cannot be
\* imported, or the file is read
ReturnMap ==
    /\ app_pc = "files" /\ page = "map" /\ file_idx > Len(CsvKeys)
    /\ \/ /\ files["neighbourhoods"] = "missing"
          /\ datasets' = AllCsvKeys
          /\ UNCHANGED <<messages, files_read>>
       \/ /\ files["neighbourhoods"] # "missing" /\ ~geopandas_available
          /\ datasets' = AllCsvKeys
          /\ messages' = Append(messages,
                Message("warning", "GeoPandas not available", "neighbourhoods.geojson"))
          /\ UNCHANGED files_read
       \/ /\ files["neighbourhoods"] = "readable" /\ geopandas_available
          /\ datasets' = AllCsvKeys \cup {"neighbourhoods"}
          /\ files_read' = files_read \cup {"neighbourhoods"}
          /\ UNCHANGED messages
    /\ app_pc' = "returned"
    /\ UNCHANGED <<translator, loader, mapper, dirs_exist, files, geopandas_available,
                   data_path, file_idx, rendered>>

\* 2_map.py lines 45-54: gpd.read_file raises something that is not an
\* ImportError; the except of line 52 catches it
ReadGeoJsonRaises ==
    /\ app_pc = "files" /\ page = "map" /\ file_idx > Len(CsvKeys)
    /\ files["neighbourhoods"] = "unreadable" /\ geopandas_available
    /\ files_read' = files_read \cup {"neighbourhoods"}
    /\ messages' = Append(messages, Message("error", "Error loading data", "none"))
    /\ datasets' = {}
    /\ app_pc' = "returned"
    /\ UNCHANGED <<translator, loader, mapper, dirs_exist, files, geopandas_available,
                   data_path, file_idx, rendered>>

\* 1_price.py lines 49-50, 2_map.py lines 58-59: listings is None, st.stop()
StopPage ==
    /\ app_pc = "returned" /\ page \in {"price", "map"}
    /\ "listings" \notin datasets
    /\ app_pc' = "stopped"
    /\ UNCHANGED <<translator, loader, mapper, dirs_exist, files, geopandas_available,
                   data_path, file_idx, datasets, files_read, messages, rendered>>

\* 1_price.py lines 52 on, 2_map.py lines 61 on: the page is rendered
RenderPage ==
    /\ app_pc = "returned" /\ page \in {"price", "map"}
    /\ "listings" \in datasets
    /\ rendered' = TRUE
    /\ app_pc' = "rendered"
    /\ UNCHANGED <<translator, loader, mapper, dirs_exist, files, geopandas_available,
                   data_path, file_idx, datasets, files_read, messages>>

NextPages ==
    \/ CheckDataDir
    \/ ReadCsv
    \/ ReadCsvRaises
    \/ ReturnPrice
    \/ ReturnMap
    \/ ReadGeoJsonRaises
    \/ StopPage
    \/ RenderPage

SpecPages == InitPages /\ [][NextPages]_vars

\* ------------------------------------------------------------- properties
ValidParams == max_chars >= 1 /\ batch_size >= 1

RECURSIVE SumLen(_)
SumLen(batch) == IF batch = <<>> THEN 0 ELSE Len(Head(batch)) + SumLen(Tail(batch))

\* Every call so far returned, and returned one record per text, in order.
AllHonest ==
    \A k \in 1..Len(calls) :
        calls[k].exc = "none" /\ calls[k].response = HonestResponse(calls[k].batch)

\* The translated texts of the first n calls, in call order.
RECURSIVE MergedUpTo(_)
MergedUpTo(n) ==
    IF n = 0 THEN <<>> ELSE MergedUpTo(n - 1) \o Extract(calls[n].response)

\* Records returned minus texts sent, over the first n calls.
RECURSIVE Surplus(_)
Surplus(n) ==
    IF n = 0 THEN 0
    ELSE Surplus(n - 1) + Len(calls[n].response) - Len(calls[n].batch)

Aligned ==
    /\ Len(results) = Len(text_list)
    /\ \A n \in 1..Len(text_list) : results[n] = Translation(text_list[n])

\* C1: with max_chars >= 1 and batch_size >= 1 and a translation client that
\* answers every batch with one record per text in order, the returned list
\* is as long as text_list and its n-th entry is the translation of the n-th
\* text, wherever the batch boundaries fall.
C1_OrderPreserved ==
    (ValidParams /\ AllHonest /\ pc = "returned") => Aligned

C1_Witness ==
    /\ ValidParams /\ AllHonest /\ pc = "returned"
    /\ Len(text_list) >= 3 /\ Len(calls) >= 2
    /\ text_list[1] # text_list[2] /\ text_list[2] # text_list[3]

\* C2: with max_chars >= 1 and batch_size >= 1, every batch client.translate
\* receives has at most batch_size texts and at most max_chars characters,
\* unless it is a single text that is longer than max_chars by itself.
C2_BatchWithinLimits ==
    ValidParams =>
        \A k \in 1..Len(calls) :
            LET b == calls[k].batch
            IN  \/ Len(b) <= batch_size /\ SumLen(b) <= max_chars
                \/ Len(b) = 1 /\ Len(b[1]) > max_chars

C2_Witness ==
    /\ ValidParams
    /\ \E k \in 1..Len(calls) :
         /\ Len(calls[k].batch) = batch_size /\ batch_size >= 2
         /\ SumLen(calls[k].batch) = max_chars
    /\ \E k \in 1..Len(calls) :
         Len(calls[k].batch) = 1 /\ Len(calls[k].batch[1]) > max_chars

\* C3: a text longer than max_chars is never split, cut or left out: it is
\* alone in its batch, the batch holds it whole, and when the function
\* returns every such text of text_list has been sent that way.
C3_OversizedAlone ==
    /\ \A k \in 1..Len(calls) :
         \A j \in 1..Len(calls[k].batch) :
            Len(calls[k].batch[j]) > max_chars =>
                calls[k].batch = <<text_list[calls[k].first]>>
    /\ \A j \in 1..Len(current_batch) :
         Len(current_batch[j]) > max_chars => Len(current_batch) = 1
    /\ pc = "returned" =>
         \A n \in 1..Len(text_list) :
            Len(text_list[n]) > max_chars =>
                \E k \in 1..Len(calls) :
                    calls[k].first = n /\ calls[k].batch = <<text_list[n]>>

C3_Witness ==
    /\ ValidParams /\ pc = "returned" /\ Len(text_list) = 3
    /\ Len(text_list[1]) \in 1..max_chars
    /\ Len(text_list[2]) > max_chars
    /\ Len(text_list[3]) \in 1..max_chars
    /\ batch_size >= 2

\* C4: every call of client.translate carries a non-empty batch, and for a
\* text_list of one text longer than max_chars exactly one call is made.
C4_NoEmptyBatch ==
    ValidParams =>
        /\ \A k \in 1..Len(calls) : calls[k].batch # <<>>
        /\ (Len(text_list) = 1 /\ pc = "returned") =>
              (Len(text_list[1]) > max_chars => Len(calls) = 1)

\* C5: for an empty text_list, with max_chars >= 1 and batch_size >= 1, no
\* call of client.translate is made and the empty list is returned.
C5_EmptyInput ==
    (ValidParams /\ text_list = <<>>) =>
        calls = <<>> /\ results = <<>> /\ pc # "raised"

C5_Witness == ValidParams /\ text_list = <<>> /\ pc = "returned"

\* C6: when client.translate raises for a batch, nothing of that batch or a
\* later one is in results, no batch is sent after the failing call, and
\* the function ends by raising, not by returning.
C6_FailFast ==
    /\ \A k \in 1..Len(calls) :
         calls[k].exc # "none" => k = Len(calls) /\ pc = "raised"
    /\ pc = "raised" =>
         /\ Len(calls) >= 1 /\ calls[Len(calls)].exc # "none"
         /\ results = MergedUpTo(Len(calls) - 1)
         /\ Len(results) - Surplus(Len(calls) - 1) = calls[Len(calls)].first - 1

C6_Witness ==
    /\ pc = "raised" /\ Len(calls) >= 2 /\ i <= Len(text_list)
    /\ calls[Len(calls)].batch # <<>>

\* C7 as claimed: the error delivered for a failure on batch k is a
\* RemoteCallError with the zero-based batch index k and the count of
\* texts translated before the failure.
C7_RemoteCallError ==
    pc = "raised" =>
        raised = [type |-> "RemoteCallError", batch_index |-> Len(calls) - 1,
                  partial_count |-> Len(results)]

\* C7 as amended: the error delivered to the caller is the exception of
\* client.translate itself, unchanged; it is no RemoteCallError and carries
\* no batch index and no count.
C7_ErrorPropagatesUnchanged ==
    /\ pc = "raised" => raised = [type |-> calls[Len(calls)].exc]
    /\ pc # "raised" => raised = NoException
    /\ raised.type \in RemoteExceptions \cup {"none"}

C7_Witness ==
    /\ pc = "raised" /\ Len(calls) = 2 /\ Len(results) >= 1
    /\ raised.type \in RemoteExceptions

\* C8 as claimed: with max_chars < 1 or batch_size < 1 the function fails
\* with ConfigurationError; it sends no batch and returns no list.
C8_ConfigurationError ==
    ~ValidParams =>
        /\ calls = <<>>
        /\ pc # "returned"
        /\ pc = "raised" => raised = [type |-> "ConfigurationError"]

\* C8 as amended: with max_chars < 1 or batch_size < 1 nothing is validated
\* and no ConfigurationError is raised: the texts are batched as usual (with
\* batch_size < 1: an empty first batch, then one text per batch), the only
\* failure is an exception of client.translate, and otherwise the list is
\* returned.
C8_NoValidation ==
    ~ValidParams =>
        /\ raised.type # "ConfigurationError"
        /\ pc = "raised" => calls[Len(calls)].exc \in RemoteExceptions
        /\ (pc = "returned" /\ AllHonest) => Aligned
        /\ batch_size < 1 =>
             \A k \in 1..Len(calls) :
                IF k = 1 THEN calls[k].batch = <<>> ELSE Len(calls[k].batch) = 1

C8_Witness ==
    /\ batch_size = 0 /\ max_chars >= 1 /\ pc = "returned"
    /\ Len(text_list) >= 2 /\ Len(calls) = Len(text_list) + 1 /\ Aligned

\* C9 as claimed: a call returning a list of another length than its batch
\* makes the function fail with RemoteCallError, and a returned list is
\* always as long as text_list.
C9_MismatchRejected ==
    /\ (\E k \in 1..Len(calls) : Mismatched(k)) =>
          pc = "raised" /\ raised.type = "RemoteCallError"
    /\ pc = "returned" => Len(results) = Len(text_list)

\* C9 as amended: a call returning a list of another length than its batch
\* raises nothing: its records are merged as they are, and the returned
\* list is longer or shorter than text_list by the calls' surplus.
C9_MismatchMergedAsIs ==
    /\ results = MergedUpTo(Len(calls))
    /\ (\E k \in 1..Len(calls) : Mismatched(k)) => raised.type # "RemoteCallError"
    /\ (pc = "raised" /\ \E k \in 1..Len(calls) : Mismatched(k)) =>
          calls[Len(calls)].exc \in RemoteExceptions
    /\ pc = "returned" => Len(results) = Len(text_list) + Surplus(Len(calls))

C9_Witness ==
    /\ pc = "returned" /\ ValidParams
    /\ \E k \in 1..Len(calls) : Mismatched(k)
    /\ Len(results) # Len(text_list)

\* C10: no batch is sent twice: each call carries the texts that follow
\* those of the call before it, a call that raised is the last call, and
\* no two calls carry the same batch.
C10_NoRetry ==
    /\ \A k \in 1..(Len(calls) - 1) :
         /\ calls[k].exc = "none"
         /\ calls[k + 1].first = calls[k].first + Len(calls[k].batch)
    /\ \A k, l \in 1..Len(calls) :
         (k < l) => ~(calls[k].first = calls[l].first /\ calls[k].batch = calls[l].batch)
    /\ Len(calls) >= 1 => calls[1].first = 1

C10_Witness ==
    /\ pc = "raised" /\ i > Len(text_list) /\ Len(calls) = 3
    /\ calls[1].batch # <<>>

\* Texts sent in the first n calls.
RECURSIVE BatchItems(_)
BatchItems(n) == IF n = 0 THEN 0 ELSE BatchItems(n - 1) + Len(calls[n].batch)

\* The batches of the first n calls, one after another.
RECURSIVE ConcatBatches(_)
ConcatBatches(n) == IF n = 0 THEN <<>> ELSE ConcatBatches(n - 1) \o calls[n].batch

CeilDiv(n, d) == (n + d - 1) \div d

\* C11: batches are sent one after another in input order, and once the
\* k-th call has returned and is merged, results is exactly the translations
\* of the first n_k texts, n_k the size of the first k batches together;
\* the next batch starts at text n_k + 1.
C11_SequentialMerge ==
    /\ \A k \in 1..Len(calls) : calls[k].first = 1 + BatchItems(k - 1)
    /\ AllHonest =>
         /\ Len(results) = BatchItems(Len(calls))
         /\ \A j \in 1..Len(results) : results[j] = Translation(text_list[j])
         /\ pc = "loop" => i - Len(current_batch) = Len(results) + 1

C11_Witness ==
    /\ pc = "loop" /\ AllHonest /\ Len(calls) = 2 /\ current_batch # <<>>
    /\ Len(calls[1].batch) = 1 /\ Len(calls[2].batch) = 1
    /\ calls[1].batch[1] # calls[2].batch[1]
    /\ Len(results) = 2

\* C13: when the character budget never binds (all texts together are at
\* most max_chars), the n texts go out in batches of exactly batch_size
\* texts, except a last one that may be shorter: ceil(n / batch_size) calls.
C13_CountOnlyBatches ==
    (ValidParams /\ SumLen(text_list) <= max_chars) =>
        /\ \A k \in 1..Len(calls) :
             /\ k < Len(calls) => Len(calls[k].batch) = batch_size
             /\ Len(calls[k].batch) \in 1..batch_size
        /\ pc = "returned" =>
             /\ Len(calls) = CeilDiv(Len(text_list), batch_size)
             /\ BatchItems(Len(calls)) = Len(text_list)

C13_Witness ==
    /\ ValidParams /\ SumLen(text_list) <= max_chars /\ pc = "returned"
    /\ Len(text_list) = 3 /\ batch_size = 2 /\ Len(calls) = 2
    /\ Len(calls[2].batch) = 1

\* C15: batches are maximal: of two batches sent one after the other, the
\* first is full (batch_size texts) or the first text of the second would
\* have taken it over max_chars; the same holds between the last batch sent
\* and the pending one.
C15_GreedyBatches ==
    ValidParams =>
        /\ \A k \in 1..(Len(calls) - 1) :
             \/ Len(calls[k].batch) = batch_size
             \/ SumLen(calls[k].batch) + Len(calls[k + 1].batch[1]) > max_chars
        /\ (pc = "loop" /\ Len(calls) >= 1) =>
             /\ current_batch # <<>>
             /\ \/ Len(calls[Len(calls)].batch) = batch_size
                \/ SumLen(calls[Len(calls)].batch) + Len(current_batch[1]) > max_chars

C15_Witness ==
    /\ ValidParams /\ Len(calls) = 2
    /\ Len(calls[1].batch) \in 2..(batch_size - 1)
    /\ SumLen(calls[1].batch) = max_chars

\* C16: when the function returns, the batches sent, one after another in
\* call order, are exactly text_list: nothing dropped, nothing sent twice,
\* the last pending batch included.
C16_AllItemsSent ==
    pc = "returned" => ConcatBatches(Len(calls)) = text_list

C16_Witness ==
    /\ pc = "returned" /\ Len(text_list) = 3 /\ Len(calls) = 2
    /\ Len(calls[2].batch) = 2 /\ text_list[1] # text_list[2]

\* C14: the character budget is inclusive: while the pending batch has
\* fewer than batch_size texts, the next text joins it without a call when
\* the total with it is at most max_chars, and a call is made only when the
\* total would be greater than max_chars.
C14_InclusiveBudget ==
    [][ (pc = "loop" /\ i <= Len(text_list) /\ Len(current_batch) < batch_size) =>
           IF char_count + Len(text_list[i]) <= max_chars
           THEN calls' = calls /\ current_batch' = Append(current_batch, text_list[i])
           ELSE Len(calls') = Len(calls) + 1 /\ calls'[Len(calls')].batch = current_batch
      ]_vars

C14_Witness ==
    /\ ValidParams /\ pc = "loop" /\ calls = <<>>
    /\ Len(current_batch) = 2 /\ Len(current_batch) < batch_size
    /\ Len(current_batch[1]) >= 1 /\ Len(current_batch[2]) >= 1
    /\ char_count = max_chars
    /\ i <= Len(text_list) /\ Len(text_list[i]) >= 1

\* C18: loop invariant: char_count is the total length of the texts in
\* current_batch, and current_batch holds exactly the texts taken since the
\* last flush (so a flush left it empty, with char_count 0, before the
\* current text was appended).
C18_LoopInvariant ==
    /\ char_count = SumLen(current_batch)
    /\ pc = "loop" =>
         current_batch =
            SubSeq(text_list,
                   IF calls = <<>> THEN 1
                   ELSE calls[Len(calls)].first + Len(calls[Len(calls)].batch),
                   i - 1)

C18_Witness ==
    /\ pc = "loop" /\ Len(calls) = 1 /\ SumLen(calls[1].batch) >= 1
    /\ Len(current_batch) = 2 /\ char_count = 2

\* C19: text_list is left as it was: no step changes it, and every batch
\* sent holds the texts of text_list at its positions, unmodified.
C19_InputUnchanged ==
    [][ /\ text_list' = text_list
        /\ \A k \in 1..Len(calls') :
             calls'[k].batch =
                SubSeq(text_list, calls'[k].first,
                       calls'[k].first + Len(calls'[k].batch) - 1)
      ]_vars

C19_Witness ==
    /\ ValidParams /\ pc \in {"returned", "raised"} /\ Len(calls) = 3
    /\ Len(calls[2].batch[1]) > max_chars
    /\ calls[1].batch # <<>>

\* Work left: the texts not yet taken, plus one while the function runs.
Remaining == (Len(text_list) + 1 - i) + (IF pc = "loop" THEN 1 ELSE 0)

\* C17: for a finite text_list and a client that always returns or raises,
\* the function ends: every step takes a text or ends the function (the
\* work left shrinks with each step), and it eventually returns or raises.
C17_Terminates ==
    /\ [][Remaining' < Remaining]_vars
    /\ <>(pc \in {"returned", "raised"})

C17_Witness ==
    /\ pc = "returned" /\ Len(text_list) = 3 /\ Len(calls) = 3 /\ Remaining = 0
    /\ Len(calls[1].batch) = 1

\* The service is deterministic: over both invocations, equal batches got
\* equal answers.
Deterministic == AnswersAgree(first_run.calls \o calls)

\* C12: a second invocation with the same text_list, max_chars and
\* batch_size and a deterministic service sends the same batches in the
\* same order and ends the same way, returning the identical list.
C12_SameAgain ==
    (run = 2 /\ Deterministic) =>
        /\ Len(calls) <= Len(first_run.calls)
        /\ \A k \in 1..Len(calls) : calls[k] = first_run.calls[k]
        /\ pc \in {"returned", "raised"} =>
             /\ pc = first_run.pc
             /\ calls = first_run.calls
             /\ results = first_run.results
             /\ raised = first_run.raised

C12_Witness ==
    /\ run = 2 /\ Deterministic /\ pc = "returned" /\ ValidParams
    /\ Len(calls) = 2 /\ Len(results) = 3
    /\ results[1] # results[2]

\* C20: in each load_data that samples reviews, a reviews file of N rows
\* that was read gives a dataset of min(2000, N) rows: never more than
\* 2000, and all N rows when N <= 2000.
C20_ReviewsSampled ==
    (load_pc = "done" /\ load_error # "ReadError") =>
        /\ reviews.loaded
        /\ reviews.rows = Min(SampleSize, n_rows)
        /\ reviews.rows <= SampleSize
        /\ n_rows <= SampleSize => reviews.rows = n_rows

C20_Witness ==
    /\ load_pc = "done" /\ page = "price"
    /\ n_rows > SampleSize /\ reviews = [loaded |-> TRUE, rows |-> SampleSize]

\* C21: on the Review Scores map every row with a rating gets exactly one
\* marker, green iff the rating is at least 4.5, orange iff it is at least
\* 4.0 and below 4.5, red iff it is below 4.0; a row without a rating gets
\* no marker.
C21_MarkerColours ==
    (map_pc = "done" /\ map_type = "Review Scores" /\ notice = "legend") =>
        \A k \in 1..Len(ratings) :
            LET mine == { n \in 1..Len(score_markers) : score_markers[n].row = k }
            IN  IF ratings[k].null THEN mine = {}
                ELSE /\ Cardinality(mine) = 1
                     /\ \A n \in mine :
                          /\ score_markers[n].color = "green" <=> ratings[k].score >= 45
                          /\ score_markers[n].color = "orange" <=>
                                (ratings[k].score >= 40 /\ ratings[k].score < 45)
                          /\ score_markers[n].color = "red" <=> ratings[k].score < 40

C21_Witness ==
    /\ map_pc = "done" /\ map_type = "Review Scores" /\ Len(ratings) = 2
    /\ ratings[1].null /\ ~ratings[2].null /\ ratings[2].score = 45
    /\ score_markers = <<[row |-> 2, color |-> "green"]>>

\* C22: the Listings Overview map never has more than 1000 markers: all the
\* filtered listings when they are at most 1000, exactly 1000 otherwise, and
\* the "Showing N out of M listings" notice appears iff they are more than
\* 1000.
C22_MarkerCap ==
    (map_pc = "done" /\ map_type = "Listings Overview") =>
        /\ overview_markers <= 1000
        /\ n_filtered <= 1000 => overview_markers = n_filtered
        /\ n_filtered > 1000 => overview_markers = 1000
        /\ notice = "showing" <=> n_filtered > 1000

C22_Witness ==
    /\ map_pc = "done" /\ map_type = "Listings Overview"
    /\ n_filtered = 1001 /\ overview_markers = 1000 /\ notice = "showing"

\* Messages shown about a file.
MessagesAbout(filename) ==
    { messages[n] : n \in { m \in 1..Len(messages) : messages[m].file = filename } }

\* C23: in app.py load_data the directory used is the first that exists in
\* the order airbnb/data, data, Data, ., ../data, ../airbnb/data; the "Data
\* directory not found" error and the stop happen iff none of the six
\* exists, and then no file is read.
C23_FirstExistingDir ==
    (page = "app" /\ app_pc # "start") =>
        /\ data_path # 0 =>
              /\ dirs_exist[data_path]
              /\ \A j \in 1..6 : (j < data_path) => ~dirs_exist[j]
        /\ app_pc = "stopped" <=> (\A j \in 1..6 : ~dirs_exist[j])
        /\ app_pc = "stopped" <=>
              (\E n \in 1..Len(messages) : messages[n].text = "Data directory not found")
        /\ app_pc = "stopped" => (data_path = 0 /\ files_read = {} /\ datasets = {})
        /\ app_pc # "stopped" => data_path # 0

C23_Witness ==
    /\ page = "app" /\ app_pc = "returned" /\ data_path = 3
    /\ dirs_exist[5] /\ files_read # {}

C23_WitnessStopped ==
    page = "app" /\ app_pc = "stopped" /\ Len(messages) = 1

\* C24: in app.py load_data the five required files are processed
\* independently: a missing file or one whose read raises is skipped with a
\* message, the files after it are still processed, and the returned dict
\* has a key exactly for the files that existed and were read without error.
C24_FilesIndependent ==
    (page = "app" /\ app_pc = "returned") =>
        /\ \A k \in 1..Len(RequiredFiles) :
              LET file == RequiredFiles[k]
                  was_read == file.key \in files_read
              IN  /\ file.key \in datasets <=>
                        (files[file.key] = "readable" /\ was_read)
                  /\ files[file.key] = "missing" =>
                        (~was_read /\ MessagesAbout(file.filename) =
                            {Message("warning", "File not found", file.filename)})
                  /\ (files[file.key] = "unreadable" /\ was_read) =>
                        MessagesAbout(file.filename) =
                            {Message("error", "Error loading", file.filename)}
                  /\ MessagesAbout(file.filename) # {}
                  /\ (file.kind = "csv" /\ files[file.key] # "missing") => was_read

C24_Witness ==
    /\ page = "app" /\ app_pc = "returned"
    /\ files["listings"] = "missing" /\ files["detailed_listings"] = "unreadable"
    /\ datasets = {"reviews", "calendar", "neighbourhoods"}

\* C25: in app.py load_data the "Loaded <filename>" success message is
\* shown for a file only if the file's dataset was stored in the returned
\* dict, neighbourhoods.geojson without GeoPandas included.
C25_SuccessOnlyIfStored ==
    (page = "app" /\ app_pc = "returned") =>
        \A k \in 1..Len(RequiredFiles) :
            Message("success", "Loaded", RequiredFiles[k].filename) \in
                MessagesAbout(RequiredFiles[k].filename)
            => RequiredFiles[k].key \in datasets

\* C26: load_data of pages/1_price.py and pages/2_map.py is all-or-nothing:
\* if the Data directory is missing or one of the four CSV reads raises,
\* every returned element is None and the page stops before it renders
\* anything; otherwise listings, detailed_listings, reviews and calendar are
\* all non-None.
C26_AllOrNothing ==
    (page \in {"price", "map"} /\ app_pc \in {"returned", "stopped", "rendered"}) =>
        LET failed == \/ ~dirs_exist[PageDataDir]
                      \/ \E key \in AllCsvKeys : files[key] # "readable"
        IN  /\ failed => (datasets = {} /\ ~rendered /\ app_pc # "rendered")
            /\ ~failed => AllCsvKeys \subseteq datasets

====
